---- MODULE Spec2Model ----
(***************************************************************************)
(* A model of the evaluation scripts of ebola-predictor:                   *)
(*   eval.py                      the per-fold mean aggregations           *)
(*   utils/aggregated_scores.py   brier_score_loss, score_bootstrap and    *)
(*                                the ranking/scoring loop                 *)
(* Numbers that are floats in the program are exact rationals here         *)
(* (records [n, d] in lowest terms); probabilities are given in tenths     *)
(* (5 is 0.5), F1 values and confidences in hundredths (90 is 0.9).        *)
(***************************************************************************)
EXTENDS Integers, Sequences, FiniteSets, TLC

VARIABLES
    \* eval.py
    method,         \* the -m argument dispatched by evaluate()
    test_files,     \* the candidate folds returned by glob, with what is on disk
    pos,            \* number of test files the for loop has gone through
    count,          \* count
    total,          \* the running sums (total_cal/total_dis, total_prec/..., ...)
    avg,            \* the printed averages, <<>> while none is printed
    epc,            \* "loop" | "done" | "error"
    eerr,           \* the exception that ended the run, "" if none
    \* utils/aggregated_scores.py: brier_score_loss called on its own
    b_true,         \* y_true
    b_prob,         \* y_prob, in tenths
    b_out,          \* <<>> before the call, then <<outcome>>
    brpc,           \* "call" | "returned"
    \* utils/aggregated_scores.py: score_bootstrap
    score_fun,      \* the name of the score function
    y_true,         \* y_true
    y_pred,         \* y_pred (labels, or probabilities in tenths)
    pvalue,         \* pvalue, in hundredths
    n_bootstraps,   \* n_bootstraps = iter
    i,              \* number of passes of the for loop made
    indices,        \* the last resample drawn, <<>> before the first
    bootstrapped_scores,
    nSingle,        \* history: how many single-class resamples were drawn
    bpc,            \* "loop" | "done" | "error"
    bresult,        \* the returned [confidence_lower, confidence_upper], <<>> if none
    berr,           \* the exception that ended the call, "" if none
    \* utils/aggregated_scores.py: the ranking/scoring loop
    index_mode,     \* "PRED" | "IMP"
    scores,         \* the requested metric names
    f1_min,         \* in hundredths
    extra_tests,
    bootstrap,
    lineno,         \* number of ranking lines read
    line,           \* the ranking line read last
    y,              \* df["Y"] of the last pooled predictions read
    p,              \* df["P"], in tenths
    pb,
    scored,         \* history: whether the line read last got a score line
    score_lines,
    out_file,       \* the lines of the score file, <<>> while not written
    spc,            \* "loop" | "written" | "crashed"
    serr,           \* the exception that ended the script, "" if none
    \* job.py
    total_sets,
    max_restarts,
    impute_fallback,
    nModels,        \* len(mdl_ids)
    mdl_i,          \* 1-based position in mdl_ids of the model being run
    train_files,    \* the indices of the model's training-data-completed files
    jn,             \* n of run_model
    imeth,
    start,
    jcount,         \* count of run_model
    nrest,
    pidx,           \* number of predictors the predictor loop has gone through
    jpc,            \* "run_model" | "launch" | "running" | "predictors" | "finished"
    outcome,        \* of the init stage of the model run last: "" | "skipped" |
                    \* "converged" | "abandoned"
    trained,        \* history: whether train.py was run for that model
    nPrimary,       \* history: worker launches before the switch to the fallback
    nFallback,      \* history: worker launches after it
    nSwitch         \* history: switches to the fallback

evalVars == <<method, test_files, pos, count, total, avg, epc, eerr>>

brierVars == <<b_true, b_prob, b_out, brpc>>

bootVars == <<score_fun, y_true, y_pred, pvalue, n_bootstraps, i, indices,
              bootstrapped_scores, nSingle, bpc, bresult, berr>>

scoreVars == <<index_mode, scores, f1_min, extra_tests, bootstrap, lineno, line,
               y, p, pb, scored, score_lines, out_file, spc, serr>>

jobVars == <<total_sets, max_restarts, impute_fallback, nModels, mdl_i, train_files, jn,
             imeth, start, jcount, nrest, pidx, jpc, outcome, trained, nPrimary,
             nFallback, nSwitch>>

vars == <<evalVars, brierVars, bootVars, scoreVars, jobVars>>

----
\* Bounds of the model.
MaxFolds == 3
MaxMetric == 2
MaxLen == 3
MaxIter == 3
MaxScores == 2
MaxLines == 2
MaxSets == 2
MaxRestarts == 1
MaxModels == 2

----
\* Exact rationals.
RECURSIVE GCD(_, _)
GCD(a, b) == IF b = 0 THEN a ELSE GCD(b, a % b)

Abs(x) == IF x < 0 THEN -x ELSE x

\* n/d in lowest terms, d > 0.
Rat(n, d) ==
    LET g == GCD(Abs(n), d)
    IN  [n |-> n \div g, d |-> d \div g]

RatLeq(a, b) == a.n * b.d <= b.n * a.d

----
(***************************************************************************)
(* eval.py                                                                 *)
(***************************************************************************)
Methods == {"caldis", "report", "roc", "confusion"}

\* How many numbers module.eval returns for each method: (cal, dis),
\* (p, r, f), roc_auc, (n_hit, n_false_alarm, n_miss, n_correct_rej).
NComp(m) ==
    CASE m = "caldis" -> 2
      [] m = "report" -> 3
      [] m = "roc" -> 1
      [] m = "confusion" -> 4

\* What module.eval does on a complete fold: it returns the fold's metrics or
\* raises.  res = 0 stands for a raise, res = v > 0 for the metric tuple
\* <<v, v+1, ...>>.  A fold that is not complete is never evaluated (res = -1).
EvalFails(fold) == fold.res = 0

EvalResult(m, fold) == [k \in 1..NComp(m) |-> fold.res + k - 1]

\* os.path.exists(testfile) and os.path.exists(pfile) and os.path.exists(trainfile)
CompleteNoParams(fold) == fold.test /\ fold.train
Complete(fold) == fold.test /\ fold.params /\ fold.train

Folds ==
    { f \in [test : BOOLEAN, params : BOOLEAN, train : BOOLEAN, res : -1..MaxMetric] :
        (f.res = -1) <=> ~(f.test /\ f.params /\ f.train) }

RECURSIVE SeqsUpTo(_, _)
SeqsUpTo(S, n) ==
    IF n = 0 THEN {<<>>}
    ELSE LET prev == SeqsUpTo(S, n - 1)
         IN  prev \cup { Append(s, x) : s \in { t \in prev : Len(t) = n - 1 }, x \in S }

\* evaluate(predictor, method) with one of the four averaging methods.
EvalStart ==
    /\ method \in Methods
    /\ test_files \in SeqsUpTo(Folds, MaxFolds)
    /\ pos = 0
    /\ count = 0
    /\ total = [k \in 1..NComp(method) |-> 0]
    /\ avg = <<>>
    /\ epc = "loop"
    /\ eerr = ""

\* One pass of "for testfile in test_files" of an averaging function.
LoopBody(m) ==
    /\ method = m
    /\ epc = "loop"
    /\ pos < Len(test_files)
    /\ LET fold == test_files[pos + 1]
       IN  IF Complete(fold)
           THEN IF EvalFails(fold)
                THEN \* count was incremented, then module.eval raised
                     /\ count' = count + 1
                     /\ epc' = "error"
                     /\ eerr' = "EvalError"
                     /\ UNCHANGED <<pos, total>>
                ELSE /\ count' = count + 1
                     /\ total' = [k \in 1..NComp(m) |-> total[k] + EvalResult(m, fold)[k]]
                     /\ pos' = pos + 1
                     /\ UNCHANGED <<epc, eerr>>
           ELSE /\ pos' = pos + 1
                /\ UNCHANGED <<count, total, epc, eerr>>
    /\ UNCHANGED <<method, test_files, avg>>
    /\ UNCHANGED <<brierVars, bootVars, scoreVars, jobVars>>

\* total / count (Python 2: a zero count raises ZeroDivisionError for the
\* integer 0/0 and for the float 0/(1.0*0) alike).
Averages(m) ==
    /\ method = m
    /\ epc = "loop"
    /\ pos = Len(test_files)
    /\ IF count = 0
       THEN /\ epc' = "error"
            /\ eerr' = "ZeroDivisionError"
            /\ avg' = avg
       ELSE /\ epc' = "done"
            /\ eerr' = eerr
            /\ avg' = [k \in 1..NComp(m) |-> Rat(total[k], count)]
    /\ UNCHANGED <<method, test_files, pos, count, total>>
    /\ UNCHANGED <<brierVars, bootVars, scoreVars, jobVars>>

avg_cal_dis == LoopBody("caldis") \/ Averages("caldis")
avg_report == LoopBody("report") \/ Averages("report")
roc_plots == LoopBody("roc") \/ Averages("roc")
avg_conf_mat == LoopBody("confusion") \/ Averages("confusion")

EvalNext == avg_cal_dis \/ avg_report \/ roc_plots \/ avg_conf_mat

----
(***************************************************************************)
(* utils/aggregated_scores.py: the score functions                         *)
(***************************************************************************)
Unique(s) == { s[j] : j \in 1..Len(s) }

RECURSIVE SetMax(_)
SetMax(S) ==
    LET x == CHOOSE v \in S : TRUE
    IN  IF S = {x} THEN x
        ELSE LET m == SetMax(S \ {x}) IN IF x > m THEN x ELSE m

RECURSIVE SetMin(_)
SetMin(S) ==
    LET x == CHOOSE v \in S : TRUE
    IN  IF S = {x} THEN x
        ELSE LET m == SetMin(S \ {x}) IN IF x < m THEN x ELSE m

RECURSIVE SumSeq(_)
SumSeq(s) == IF s = <<>> THEN 0 ELSE Head(s) + SumSeq(Tail(s))

Ok(v) == [ok |-> TRUE, val |-> v, err |-> ""]
Raise(e) == [ok |-> FALSE, val |-> Rat(0, 1), err |-> e]

\* _check_binary_probabilistic_predictions: the exception it raises, "" if none
\* (on success it returns label_binarize(y_true, labels)[:, 0], which is y_true
\* itself for a 0/1 array with both labels).
CheckNoMin(yt, yp) ==
    IF Len(yt) # Len(yp) THEN "ValueError: inconsistent numbers of samples"
    ELSE IF Cardinality(Unique(yt)) # 2 THEN "ValueError: only binary classification"
    ELSE IF SetMax(Unique(yp)) > 10 THEN "ValueError: greater than 1"
    ELSE ""

_check_binary_probabilistic_predictions(yt, yp) ==
    IF Len(yt) # Len(yp) THEN "ValueError: inconsistent numbers of samples"
    ELSE IF Cardinality(Unique(yt)) # 2 THEN "ValueError: only binary classification"
    ELSE IF SetMax(Unique(yp)) > 10 THEN "ValueError: greater than 1"
    ELSE IF SetMin(Unique(yp)) < 0 THEN "ValueError: less than 0"
    ELSE ""

\* brier_score_loss(y_true, y_prob) with sample_weight = pos_label = None.
\* y_true.max() of an empty array raises.
brier_score_loss(yt, yp) ==
    IF yt = <<>> THEN Raise("ValueError: zero-size array")
    ELSE LET pos_label == SetMax(Unique(yt))
             yb == [j \in 1..Len(yt) |-> IF yt[j] = pos_label THEN 1 ELSE 0]
             e == _check_binary_probabilistic_predictions(yb, yp)
         IN  IF e # "" THEN Raise(e)
             ELSE Ok(Rat(SumSeq([j \in 1..Len(yb) |-> (10 * yb[j] - yp[j]) * (10 * yb[j] - yp[j])]),
                         100 * Len(yb)))

\* sklearn's binary precision, recall and F1 with pos_label = 1: a zero
\* denominator gives 0 (with a warning), never an exception.
NumWhere(yt, yb, t, b) == Cardinality({ j \in 1..Len(yt) : yt[j] = t /\ yb[j] = b })

precision_score(yt, yb) ==
    LET tp == NumWhere(yt, yb, 1, 1)
        fp == NumWhere(yt, yb, 0, 1)
    IN  Ok(IF tp + fp = 0 THEN Rat(0, 1) ELSE Rat(tp, tp + fp))

recall_score(yt, yb) ==
    LET tp == NumWhere(yt, yb, 1, 1)
        fn == NumWhere(yt, yb, 1, 0)
    IN  Ok(IF tp + fn = 0 THEN Rat(0, 1) ELSE Rat(tp, tp + fn))

f1_score(yt, yb) ==
    LET tp == NumWhere(yt, yb, 1, 1)
        fp == NumWhere(yt, yb, 0, 1)
        fn == NumWhere(yt, yb, 1, 0)
    IN  Ok(IF tp = 0 THEN Rat(0, 1) ELSE Rat(2 * tp, 2 * tp + fp + fn))

\* sklearn's roc_auc_score: undefined (ValueError) with one class in y_true,
\* else the share of (positive, negative) pairs ranked right, ties counting half.
roc_auc_score(yt, yp) ==
    IF Cardinality(Unique(yt)) # 2 THEN Raise("ValueError: only one class present")
    ELSE LET hi == SetMax(Unique(yt))
             P == { j \in 1..Len(yt) : yt[j] = hi }
             N == { j \in 1..Len(yt) : yt[j] # hi }
             gt == Cardinality({ pr \in P \X N : yp[pr[1]] > yp[pr[2]] })
             eq == Cardinality({ pr \in P \X N : yp[pr[1]] = yp[pr[2]] })
         IN  Ok(Rat(2 * gt + eq, 2 * Cardinality(P) * Cardinality(N)))

ScoreFuns == {"precision", "recall", "f1", "brier", "auc"}

\* precision_bootstrap ... roc_bootstrap: the score function each one hands on.
Score(fun, yt, yp) ==
    CASE fun = "precision" -> precision_score(yt, yp)
      [] fun = "recall" -> recall_score(yt, yp)
      [] fun = "f1" -> f1_score(yt, yp)
      [] fun = "brier" -> brier_score_loss(yt, yp)
      [] fun = "auc" -> roc_auc_score(yt, yp)

----
(***************************************************************************)
(* brier_score_loss on its own                                             *)
(***************************************************************************)
Labels == {0, 1, 2}
Probs == {-1, 0, 5, 10, 11}

\* Index-aligned (label, probability) columns of up to MaxLen cases.
BrierStart ==
    /\ \E n \in 0..MaxLen :
          /\ b_true \in [1..n -> Labels]
          /\ b_prob \in [1..n -> Probs]
    /\ b_out = <<>>
    /\ brpc = "call"

BrierCall ==
    /\ brpc = "call"
    /\ b_out' = <<brier_score_loss(b_true, b_prob)>>
    /\ brpc' = "returned"
    /\ UNCHANGED <<b_true, b_prob>>
    /\ UNCHANGED <<evalVars, bootVars, scoreVars, jobVars>>

----
(***************************************************************************)
(* score_bootstrap                                                         *)
(***************************************************************************)
\* The calls made: a score function with the columns it is given (the labels
\* y with the thresholded predictions pb, or with the probabilities p).
BootInputs ==
    { [fun |-> "precision", y |-> <<0, 1, 1>>, p |-> <<1, 1, 0>>],
      [fun |-> "recall",    y |-> <<1, 1, 1>>, p |-> <<1, 0, 1>>],
      [fun |-> "f1",        y |-> <<1, 0, 1>>, p |-> <<1, 1, 0>>],
      [fun |-> "brier",     y |-> <<0, 1, 1>>, p |-> <<2, 6, 9>>],
      [fun |-> "auc",       y |-> <<0, 0, 1>>, p |-> <<3, 7, 5>>] }

\* --confidence, in hundredths; pvalue = 1.0 - confidence / 100.0
Confidences == {100, 95, 60}

PvalueOf(confidence) == 100 - confidence

BootStart ==
    /\ \E inp \in BootInputs :
          /\ score_fun = inp.fun
          /\ y_true = inp.y
          /\ y_pred = inp.p
    /\ \E c \in Confidences : pvalue = PvalueOf(c)
    /\ n_bootstraps \in 0..MaxIter
    /\ i = 0
    /\ indices = <<>>
    /\ bootstrapped_scores = <<>>
    /\ nSingle = 0
    /\ bpc = "loop"
    /\ bresult = <<>>
    /\ berr = ""

\* int(x) of the float n/d: truncation towards zero.
PyInt(n, d) == IF n >= 0 THEN n \div d ELSE -((-n) \div d)

\* a[indices]
Resample(a, idx) == [j \in 1..Len(idx) |-> a[idx[j]]]

\* len(np.unique(y_true[indices])) < 2
RejectsNone(yt) == FALSE
Rejects(yt) == Cardinality(Unique(yt)) < 2

\* One pass of "for i in range(n_bootstraps)".  rng.random_integers(0, N-1, N)
\* draws N positions with replacement (positions are 1..N here).
BootstrapIteration ==
    /\ bpc = "loop"
    /\ i < n_bootstraps
    /\ \E idx \in [1..Len(y_pred) -> 1..Len(y_pred)] :
          LET yt == Resample(y_true, idx)
              yp == Resample(y_pred, idx)
              score == Score(score_fun, yt, yp)
          IN  /\ indices' = idx
              /\ nSingle' = IF \A j \in 1..Len(idx) : y_true[idx[j]] = y_true[idx[1]]
                            THEN nSingle + 1 ELSE nSingle
              /\ IF Rejects(yt)
                 THEN /\ i' = i + 1
                      /\ UNCHANGED <<bootstrapped_scores, bpc, berr>>
                 ELSE IF score.ok
                 THEN /\ bootstrapped_scores' = Append(bootstrapped_scores, score.val)
                      /\ i' = i + 1
                      /\ UNCHANGED <<bpc, berr>>
                 ELSE /\ bpc' = "error"
                      /\ berr' = score.err
                      /\ UNCHANGED <<i, bootstrapped_scores>>
    /\ UNCHANGED <<score_fun, y_true, y_pred, pvalue, n_bootstraps, bresult>>
    /\ UNCHANGED <<evalVars, brierVars, scoreVars, jobVars>>

\* sorted_scores.sort(): ascending
RECURSIVE Insert(_, _)
Insert(x, s) ==
    IF s = <<>> THEN <<x>>
    ELSE IF RatLeq(x, Head(s)) THEN <<x>> \o s
    ELSE <<Head(s)>> \o Insert(x, Tail(s))

RECURSIVE SortAsc(_)
SortAsc(s) == IF s = <<>> THEN <<>> ELSE Insert(Head(s), SortAsc(Tail(s)))

Unsorted(s) == s
sorted_scores(s) == SortAsc(s)

\* The two positions read, 0-based as in the program.
LowerIndex(pv, M) == PyInt(pv * M, 100)
UpperIndex(pv, M) == PyInt((100 - pv) * M, 100)

\* After the loop: sort, read the two positions, return.  A position outside
\* 0..M-1 raises IndexError (positions are never negative here).
BootstrapReturn ==
    /\ bpc = "loop"
    /\ i = n_bootstraps
    /\ LET s == sorted_scores(bootstrapped_scores)
           M == Len(s)
           lo == LowerIndex(pvalue, M)
           hi == UpperIndex(pvalue, M)
       IN  IF lo >= M \/ hi >= M
           THEN /\ bpc' = "error"
                /\ berr' = "IndexError"
                /\ bresult' = bresult
           ELSE /\ bpc' = "done"
                /\ berr' = berr
                /\ bresult' = <<s[lo + 1], s[hi + 1]>>
    /\ UNCHANGED <<score_fun, y_true, y_pred, pvalue, n_bootstraps, i, indices,
                   bootstrapped_scores, nSingle>>
    /\ UNCHANGED <<evalVars, brierVars, scoreVars, jobVars>>

score_bootstrap == BootstrapIteration \/ BootstrapReturn

----
(***************************************************************************)
(* utils/aggregated_scores.py: the ranking/scoring loop and the score file *)
(* A line of text is a sequence of tokens: "\t", ",", a name, or "num" for *)
(* a number printed with "%.3f" (digits, a sign, a point: no tab, no       *)
(* comma).  A path is the sequence of its components.                      *)
(***************************************************************************)
ScoreNames == ScoreFuns \cup {"accuracy"}

DefaultScores == <<"precision", "recall", "f1", "brier", "auc">>

\* args.scores[0].split(","): never empty
ScoreLists ==
    (SeqsUpTo({"precision", "brier", "accuracy"}, MaxScores) \ {<<>>}) \cup {DefaultScores}

\* --f1_min, in hundredths (default 0.9)
F1Mins == {90}

\* args.extra_tests[0].split(","): the default "" gives [""]
ExtraTests == {<<"">>, <<"t1">>}

\* args.exclude[0].split(",") of the default
excluded_predictors == <<"lreg", "scikit_randf">>

\* The names of ./data/predictors.txt or ./data/imputation.txt, in file order.
IndexNamesOf(mode) ==
    IF mode = "PRED" THEN <<"nnet", "dtree">> ELSE <<"amelia", "mice">>

index_acron(idx) ==
    CASE idx = "nnet" -> "NN"
      [] idx = "dtree" -> "DT"
      [] idx = "amelia" -> "AM"
      [] idx = "mice" -> "MI"

\* The lines of the ranking file: model path, predictor, mean F1 (hundredths).
RankLines ==
    { [mdl |-> <<"", "out", "amelia", "m1">>,        pred |-> "nnet", f1 |-> 85],
      [mdl |-> <<"", "out", "amelia", "m1">>,        pred |-> "nnet", f1 |-> 90],
      [mdl |-> <<"", "out", "amelia", "m1">>,        pred |-> "nnet", f1 |-> 95],
      [mdl |-> <<"models", "amelia", "t1", "m1">>,   pred |-> "nnet", f1 |-> 90],
      [mdl |-> <<"models", "mice", "t1", "m1">>,     pred |-> "dtree", f1 |-> 95],
      [mdl |-> <<"models", "amelia", "t1", "m1">>,   pred |-> "lreg", f1 |-> 95],
      [mdl |-> <<"models", "amelia", "t1", "m1">>,   pred |-> "svm", f1 |-> 95],
      [mdl |-> <<"models", "m2">>,                   pred |-> "nnet", f1 |-> 95],
      [mdl |-> <<"models", "t1", "m3">>,             pred |-> "nnet", f1 |-> 95] }

\* What ./out/predictions.csv holds after aggregate.py: the Y and P columns.
PooledSets ==
    { [y |-> <<>>, p |-> <<>>],
      [y |-> <<0, 1>>, p |-> <<5, 5>>],
      [y |-> <<0, 0, 1, 1>>, p |-> <<1, 4, 6, 9>>],
      [y |-> <<1, 1>>, p |-> <<9, 5>>] }

InSeq(x, s) == \E j \in 1..Len(s) : s[j] = x

ScoresStart ==
    /\ index_mode \in {"PRED", "IMP"}
    /\ scores \in ScoreLists
    /\ f1_min \in F1Mins
    /\ extra_tests \in ExtraTests
    /\ bootstrap \in BOOLEAN
    /\ lineno = 0
    /\ line = [mdl |-> <<>>, pred |-> "", f1 |-> 0]
    /\ y = <<>>
    /\ p = <<>>
    /\ pb = <<>>
    /\ scored = FALSE
    /\ score_lines = <<>>
    /\ out_file = <<>>
    /\ spc = "loop"
    /\ serr = ""

\* "for idx in index_names: if idx in mdl_str: break", from idx = "": the loop
\* variable keeps the last name when no name matches.
RECURSIVE FirstIn(_, _, _)
FirstIn(names, mdl, idx) ==
    IF names = <<>> THEN idx
    ELSE IF InSeq(Head(names), mdl) THEN Head(names)
    ELSE FirstIn(Tail(names), mdl, Head(names))

IndexOf(mode, l) ==
    IF mode = "PRED" THEN l.pred ELSE FirstIn(IndexNamesOf(mode), l.mdl, "")

\* "if extra_tests:" is true of every list split() returns; the line is
\* dropped when some name is not a component of the path.
MissingExtra(extra, l) == \E j \in 1..Len(extra) : ~InSeq(extra[j], l.mdl)

\* The three "continue"s before the F1 test.
PassesFilters(mode, extra, l) ==
    /\ ~InSeq(l.pred, excluded_predictors)
    /\ InSeq(IndexOf(mode, l), IndexNamesOf(mode))
    /\ ~MissingExtra(extra, l)

\* if f1_min <= f1_mean
F1PassesStrict(min, mean) == min < mean
F1Passes(min, mean) == min <= mean

\* pb = np.array([int(0.5 < x) for x in p])
PredictedLabelsGeq(probs) == [j \in 1..Len(probs) |-> IF 5 <= probs[j] THEN 1 ELSE 0]
PredictedLabels(probs) == [j \in 1..Len(probs) |-> IF 5 < probs[j] THEN 1 ELSE 0]

\* The cell of one metric: "%.3f" of the score, or lo,score,hi.
Cell(boot) == IF boot THEN <<"num", ",", "num", ",", "num">> ELSE <<"num">>

\* "for score in scores": the metric cells appended to the line, or the first
\* exception.  An unknown name matches no branch and appends nothing.  bootOk
\* says whether the bootstrap calls return (they raise IndexError when no
\* resample is retained or a position read is out of range).
RECURSIVE ScoreCells(_, _, _, _, _, _)
ScoreCells(names, yy, pp, bb, boot, bootOk) ==
    IF names = <<>> THEN [ok |-> TRUE, cells |-> <<>>, err |-> ""]
    ELSE LET name == Head(names)
             point == IF name \in {"brier", "auc"} THEN Score(name, yy, pp)
                      ELSE IF name \in ScoreFuns THEN Score(name, yy, bb)
                      ELSE Ok(Rat(0, 1))
             rest == ScoreCells(Tail(names), yy, pp, bb, boot, bootOk)
         IN  IF name \notin ScoreFuns THEN rest
             ELSE IF ~point.ok THEN [ok |-> FALSE, cells |-> <<>>, err |-> point.err]
             ELSE IF boot /\ ~bootOk THEN [ok |-> FALSE, cells |-> <<>>, err |-> "IndexError"]
             ELSE IF ~rest.ok THEN rest
             ELSE [ok |-> TRUE, cells |-> <<"\t">> \o Cell(boot) \o rest.cells, err |-> ""]

\* Whether a bootstrap call on labels yy can return: with one class every
\* resample is rejected and sorted_scores[0] raises.
BootOutcomes(yy) == IF Cardinality(Unique(yy)) < 2 THEN {FALSE} ELSE {TRUE, FALSE}

\* One pass of "for line in lines" over the ranking file.
ScoreLine ==
    /\ spc = "loop"
    /\ lineno < MaxLines
    /\ \E l \in RankLines :
          /\ line' = l
          /\ lineno' = lineno + 1
          /\ IF ~PassesFilters(index_mode, extra_tests, l) \/ ~F1Passes(f1_min, l.f1)
             THEN /\ scored' = FALSE
                  /\ UNCHANGED <<y, p, pb, score_lines, spc, serr>>
             ELSE \E pooled \in PooledSets :
                  /\ y' = pooled.y
                  /\ p' = pooled.p
                  /\ IF Len(pooled.y) = 0
                     THEN /\ scored' = FALSE
                          /\ UNCHANGED <<pb, score_lines, spc, serr>>
                     ELSE \E bootOk \in BootOutcomes(pooled.y) :
                          LET bb == PredictedLabels(pooled.p)
                              r == ScoreCells(scores, pooled.y, pooled.p, bb, bootstrap, bootOk)
                              score_line ==
                                  <<index_acron(IndexOf(index_mode, l)), "\t", "vars">> \o r.cells
                          IN  /\ pb' = bb
                              /\ IF r.ok
                                 THEN /\ score_lines' = Append(score_lines, score_line)
                                      /\ scored' = TRUE
                                      /\ UNCHANGED <<spc, serr>>
                                 ELSE /\ spc' = "crashed"
                                      /\ serr' = r.err
                                      /\ scored' = FALSE
                                      /\ UNCHANGED score_lines
    /\ UNCHANGED <<index_mode, scores, f1_min, extra_tests, bootstrap, out_file>>
    /\ UNCHANGED <<evalVars, brierVars, bootVars, jobVars>>

\* The header of the score file.
RECURSIVE HeaderCells(_)
HeaderCells(names) ==
    IF names = <<>> THEN <<>> ELSE <<"\t", Head(names)>> \o HeaderCells(Tail(names))

\* After the last line of the ranking file: write the header and the lines.
WriteScores ==
    /\ spc = "loop"
    /\ out_file' = <<<<"Predictor", "\t", "Variables">> \o HeaderCells(scores)>> \o score_lines
    /\ spc' = "written"
    /\ UNCHANGED <<index_mode, scores, f1_min, extra_tests, bootstrap, lineno, line,
                   y, p, pb, scored, score_lines, serr>>
    /\ UNCHANGED <<evalVars, brierVars, bootVars, jobVars>>

----
(***************************************************************************)
(* job.py: run_model for each model of the job                             *)
(***************************************************************************)
\* impute_method and predictors as job.py sets them before reading job.cfg
impute_method == "hmisc"

predictors == <<"lreg", "scikit_lreg">>

\* impute_fallback: none, the primary method again, or another method
Fallbacks == {"", "hmisc", "mice"}

\* get_last: the highest index among training-data-completed-<index>.csv, -1
\* when there is none (or no model folder).
get_last(files) == IF files = {} THEN -1 ELSE SetMax(files)

JobStart ==
    /\ total_sets \in 1..MaxSets
    /\ max_restarts \in 0..MaxRestarts
    /\ impute_fallback \in Fallbacks
    /\ nModels \in 1..MaxModels
    /\ mdl_i = 1
    /\ train_files = {}
    /\ jn = -1
    /\ imeth = ""
    /\ start = 0
    /\ jcount = 0
    /\ nrest = 0
    /\ pidx = 0
    /\ jpc = "run_model"
    /\ outcome = ""
    /\ trained = FALSE
    /\ nPrimary = 0
    /\ nFallback = 0
    /\ nSwitch = 0

\* run_model returns: "for i in range(0, len(mdl_ids))" goes to the next model.
Return ==
    /\ mdl_i' = mdl_i + 1
    /\ jpc' = IF mdl_i + 1 > nModels THEN "finished" ELSE "run_model"

\* run_model up to the while loop: n = get_last(mdl_id), skip the init stage
\* when n + 1 == total_sets.  The files found on disk are the model's own.
RunModel ==
    /\ jpc = "run_model"
    /\ \E files \in SUBSET (0..MaxSets) :
          /\ train_files' = files
          /\ jn' = get_last(files)
          /\ IF get_last(files) + 1 = total_sets
             THEN /\ outcome' = "skipped"
                  /\ jpc' = "predictors"
                  /\ UNCHANGED <<imeth, start, jcount, nrest>>
             ELSE /\ imeth' = impute_method
                  /\ start' = get_last(files) + 1
                  /\ jcount' = total_sets - (get_last(files) + 1)
                  /\ nrest' = 0
                  /\ outcome' = ""
                  /\ jpc' = "launch"
    /\ pidx' = 0
    /\ trained' = FALSE
    /\ nPrimary' = 0
    /\ nFallback' = 0
    /\ nSwitch' = 0
    /\ UNCHANGED <<total_sets, max_restarts, impute_fallback, nModels, mdl_i>>
    /\ UNCHANGED <<evalVars, brierVars, bootVars, scoreVars>>

\* thread = threading.Thread(target=worker, args=(mdl_id, count, start, imeth))
StartWorker ==
    /\ jpc = "launch"
    /\ jpc' = "running"
    /\ IF nSwitch = 0
       THEN nPrimary' = nPrimary + 1 /\ UNCHANGED nFallback
       ELSE nFallback' = nFallback + 1 /\ UNCHANGED nPrimary
    /\ UNCHANGED <<total_sets, max_restarts, impute_fallback, nModels, mdl_i, train_files,
                   jn, imeth, start, jcount, nrest, pidx, outcome, trained, nSwitch>>
    /\ UNCHANGED <<evalVars, brierVars, bootVars, scoreVars>>

\* if nrest < max_restarts
RestartAllowedLeq(r, max) == r <= max
RestartAllowed(r, max) == r < max

\* if impute_fallback and (not imeth == impute_fallback)
FallbackUntried(fallback, meth) == fallback # "" /\ meth # fallback

\* "return" of the abandoned model: no predictor loop
AbandonBreaks == "break"
Abandon == "return"

\* The worker (init.py) writes the sets start, start+1, ... and may stop at any
\* of them; the thread ends, and run_model looks at what is there.
WorkerExit ==
    /\ jpc = "running"
    /\ \E k \in 0..(IF jcount > 0 THEN jcount ELSE 0) :
          LET files == train_files \cup (start..(start + k - 1))
              last == get_last(files)
          IN  /\ train_files' = files
              /\ jn' = last
              /\ IF last < total_sets - 1
                 THEN IF RestartAllowed(nrest, max_restarts)
                      THEN /\ start' = last + 1
                           /\ jcount' = total_sets - (last + 1)
                           /\ nrest' = nrest + 1
                           /\ jpc' = "launch"
                           /\ UNCHANGED <<imeth, nSwitch, outcome, mdl_i>>
                      ELSE IF FallbackUntried(impute_fallback, imeth)
                      THEN /\ imeth' = impute_fallback
                           /\ jcount' = total_sets
                           /\ start' = 0
                           /\ nrest' = 0
                           /\ nSwitch' = nSwitch + 1
                           /\ jpc' = "launch"
                           /\ UNCHANGED <<outcome, mdl_i>>
                      ELSE /\ outcome' = "abandoned"
                           /\ IF Abandon = "return"
                              THEN Return
                              ELSE jpc' = "predictors" /\ UNCHANGED mdl_i
                           /\ UNCHANGED <<imeth, start, jcount, nrest, nSwitch>>
                 ELSE /\ outcome' = "converged"
                      /\ jpc' = "predictors"
                      /\ UNCHANGED <<imeth, start, jcount, nrest, nSwitch, mdl_i>>
    /\ UNCHANGED <<total_sets, max_restarts, impute_fallback, nModels, pidx, trained,
                   nPrimary, nFallback>>
    /\ UNCHANGED <<evalVars, brierVars, bootVars, scoreVars>>

\* One pass of "for pred_name in predictors": a non-empty report is skipped,
\* else train.py and eval.py are run.
TrainPredictor ==
    /\ jpc = "predictors"
    /\ pidx < Len(predictors)
    /\ \E report_found \in BOOLEAN :
          trained' = (trained \/ ~report_found)
    /\ pidx' = pidx + 1
    /\ UNCHANGED <<total_sets, max_restarts, impute_fallback, nModels, mdl_i, train_files,
                   jn, imeth, start, jcount, nrest, jpc, outcome, nPrimary, nFallback,
                   nSwitch>>
    /\ UNCHANGED <<evalVars, brierVars, bootVars, scoreVars>>

\* The predictor loop is over: run_model returns.
RunModelReturn ==
    /\ jpc = "predictors"
    /\ pidx = Len(predictors)
    /\ Return
    /\ UNCHANGED <<total_sets, max_restarts, impute_fallback, nModels, train_files,
                   jn, imeth, start, jcount, nrest, pidx, outcome, trained, nPrimary,
                   nFallback, nSwitch>>
    /\ UNCHANGED <<evalVars, brierVars, bootVars, scoreVars>>

run_model == RunModel \/ StartWorker \/ WorkerExit \/ TrainPredictor \/ RunModelReturn

----
(***************************************************************************)
(* The specifications: one per program.  The variables of the programs     *)
(* that are not running keep their idle values.                            *)
(***************************************************************************)
EvalIdle ==
    /\ method = "none" /\ test_files = <<>> /\ pos = 0 /\ count = 0
    /\ total = <<>> /\ avg = <<>> /\ epc = "idle" /\ eerr = ""

BrierIdle == b_true = <<>> /\ b_prob = <<>> /\ b_out = <<>> /\ brpc = "idle"

BootIdle ==
    /\ score_fun = "none" /\ y_true = <<>> /\ y_pred = <<>> /\ pvalue = 0
    /\ n_bootstraps = 0 /\ i = 0 /\ indices = <<>> /\ bootstrapped_scores = <<>>
    /\ nSingle = 0 /\ bpc = "idle" /\ bresult = <<>> /\ berr = ""

ScoresIdle ==
    /\ index_mode = "none" /\ scores = <<>> /\ f1_min = 0 /\ extra_tests = <<>>
    /\ bootstrap = FALSE /\ lineno = 0 /\ line = [mdl |-> <<>>, pred |-> "", f1 |-> 0]
    /\ y = <<>> /\ p = <<>> /\ pb = <<>> /\ scored = FALSE /\ score_lines = <<>>
    /\ out_file = <<>> /\ spc = "idle" /\ serr = ""

JobIdle ==
    /\ total_sets = 0 /\ max_restarts = 0 /\ impute_fallback = "" /\ nModels = 0
    /\ mdl_i = 0 /\ train_files = {} /\ jn = -1 /\ imeth = "" /\ start = 0 /\ jcount = 0
    /\ nrest = 0 /\ pidx = 0 /\ jpc = "idle" /\ outcome = "" /\ trained = FALSE
    /\ nPrimary = 0 /\ nFallback = 0 /\ nSwitch = 0

EvalInit == EvalStart /\ BrierIdle /\ BootIdle /\ ScoresIdle /\ JobIdle
SpecEval == EvalInit /\ [][EvalNext]_vars

BrierInit == EvalIdle /\ BrierStart /\ BootIdle /\ ScoresIdle /\ JobIdle
BrierNext == BrierCall
SpecBrier == BrierInit /\ [][BrierNext]_vars

BootInit == EvalIdle /\ BrierIdle /\ BootStart /\ ScoresIdle /\ JobIdle
BootNext == score_bootstrap
SpecBoot == BootInit /\ [][BootNext]_vars

ScoresInit == EvalIdle /\ BrierIdle /\ BootIdle /\ ScoresStart /\ JobIdle
ScoresNext == ScoreLine \/ WriteScores
SpecScores == ScoresInit /\ [][ScoresNext]_vars

JobInit == EvalIdle /\ BrierIdle /\ BootIdle /\ ScoresIdle /\ JobStart
JobNext == run_model
SpecJob == JobInit /\ [][JobNext]_vars

\* Every step of job.py is a step of one sequential program, and a worker
\* run that terminates lets it go on: no step that can be taken is put off
\* for ever.
SpecJobLive == SpecJob /\ WF_vars(JobNext)

----
(***************************************************************************)
(* Properties of eval.py                                                   *)
(***************************************************************************)
\* The folds among the first n candidates whose three files all exist.
UsableBefore(n) ==
    { j \in 1..n : test_files[j].test /\ test_files[j].params /\ test_files[j].train }

RECURSIVE SumOver(_, _)
SumOver(S, k) ==
    IF S = {} THEN 0
    ELSE LET j == CHOOSE x \in S : TRUE
         IN  EvalResult(method, test_files[j])[k] + SumOver(S \ {j}, k)

\* C1: in every mean-based aggregation a fold adds to the sums and to the fold
\* counter iff its test, params and completed-training files all exist; a fold
\* that is not complete never raises; the averages printed are the sums over
\* the complete folds divided by the number of complete folds.
C1_Theorem ==
    /\ epc = "loop" =>
          /\ count = Cardinality(UsableBefore(pos))
          /\ \A k \in 1..NComp(method) : total[k] = SumOver(UsableBefore(pos), k)
    /\ epc = "done" =>
          LET U == UsableBefore(Len(test_files))
          IN  /\ U # {}
              /\ \A k \in 1..NComp(method) :
                    avg[k].n * Cardinality(U) = SumOver(U, k) * avg[k].d
    /\ epc = "error" =>
          \/ eerr = "EvalError" /\ pos + 1 \in UsableBefore(Len(test_files))
          \/ eerr = "ZeroDivisionError" /\ UsableBefore(Len(test_files)) = {}

\* Three candidate folds, one of them missing only its params file: the
\* averages are over the other two.
C1_Witness ==
    /\ epc = "done"
    /\ Len(test_files) = 3
    /\ \E j \in 1..3 : test_files[j].test /\ test_files[j].train /\ ~test_files[j].params
    /\ Cardinality(UsableBefore(3)) = 2
    /\ avg[1].d \in {1, 2}

\* C2: with no usable fold the aggregation ends in a NoUsableFoldsError and
\* prints no average.
C2_Claim ==
    (epc \in {"done", "error"} /\ UsableBefore(Len(test_files)) = {}) =>
        (eerr = "NoUsableFoldsError" /\ avg = <<>>)

\* C3: a complete fold whose metric computation fails is skipped: it is not
\* counted, and the aggregation goes on with the remaining folds.
C3_Claim ==
    epc \in {"loop", "done", "error"} =>
        /\ eerr # "EvalError"
        /\ count = Cardinality({ j \in UsableBefore(pos) : ~EvalFails(test_files[j]) })

----
(***************************************************************************)
(* Properties of score_bootstrap                                           *)
(***************************************************************************)
\* C4 (as the program has it): a single-class resample is discarded and uses
\* up one of the K passes: recorded scores plus single-class resamples make
\* up the passes made, and when the loop has ended M = K - (single-class
\* resamples drawn).
C4_Theorem ==
    bpc \in {"loop", "done", "error"} =>
        /\ Len(bootstrapped_scores) + nSingle = i
        /\ bpc # "loop" =>
              /\ berr \in {"", "IndexError"}
              /\ Len(bootstrapped_scores) = n_bootstraps - nSingle

C4_Witness ==
    /\ bpc = "done"
    /\ n_bootstraps = 3
    /\ nSingle = 1
    /\ Len(bootstrapped_scores) = 2

\* C4 as claimed: when the loop has ended the number of recorded scores is K.
C4_Claim ==
    bpc \in {"done", "error"} => Len(bootstrapped_scores) = n_bootstraps

\* C5: with fewer than 2 retained scores the call fails with an
\* InsufficientSamplesError: no interval, no index out of range.
C5_Claim ==
    (bpc \in {"done", "error"} /\ Len(bootstrapped_scores) < 2) =>
        (berr = "InsufficientSamplesError" /\ bresult = <<>>)

\* The ascending orderings of a sequence of scores.
AscendingOrderings(q) ==
    { s \in { [j \in 1..Len(q) |-> q[f[j]]] : f \in Permutations(1..Len(q)) } :
        \A j \in 1..(Len(q) - 1) : s[j].n * s[j + 1].d <= s[j + 1].n * s[j].d }

\* floor(n / 100) for n >= 0
FloorHundredths(n) == CHOOSE k \in 0..n : 100 * k <= n /\ n < 100 * (k + 1)

C6_Returned ==
    bpc = "done" =>
        LET M == Len(bootstrapped_scores)
            A == AscendingOrderings(bootstrapped_scores)
        IN  /\ A # {}
            /\ \A s \in A :
                  bresult = <<s[FloorHundredths(pvalue * M) + 1],
                              s[FloorHundredths((100 - pvalue) * M) + 1]>>

C6_Recorded ==
    IF i' = i + 1
    THEN LET yt == [j \in 1..Len(indices') |-> y_true[indices'[j]]]
             yp == [j \in 1..Len(indices') |-> y_pred[indices'[j]]]
         IN  IF \E j \in 1..Len(yt) : yt[j] # yt[1]
             THEN bootstrapped_scores' =
                      Append(bootstrapped_scores, Score(score_fun, yt, yp).val)
             ELSE bootstrapped_scores' = bootstrapped_scores
    ELSE bootstrapped_scores' = bootstrapped_scores

\* C6: the scores recorded are exactly score_fun of the index-aligned
\* resampled pair of each two-class resample, and the pair returned is
\* (sorted[floor(p*M)], sorted[floor((1-p)*M)]) of their ascending ordering.
C6_Theorem == []C6_Returned /\ [][C6_Recorded]_vars

\* Three scores recorded out of order, and an interval with distinct ends.
C6_Witness ==
    /\ bpc = "done"
    /\ Len(bootstrapped_scores) = 3
    /\ ~RatLeq(bootstrapped_scores[1], bootstrapped_scores[2])
    /\ bresult[1] # bresult[2]

----
(***************************************************************************)
(* Properties of brier_score_loss                                          *)
(***************************************************************************)
\* C9: brier_score_loss raises, and returns no score, when the true labels
\* have fewer than two distinct values or a probability is below 0 or above
\* 1; with both classes present and every probability in [0,1] it returns.
C9_Theorem ==
    brpc = "returned" =>
        LET r == b_out[1]
            bad == \/ Cardinality({ b_true[j] : j \in 1..Len(b_true) }) < 2
                   \/ \E j \in 1..Len(b_prob) : b_prob[j] < 0 \/ b_prob[j] > 10
        IN  r.ok <=> ~bad

\* true = [1,1,1] raises.
C9_Witness ==
    /\ brpc = "returned"
    /\ b_true = <<1, 1, 1>>
    /\ ~b_out[1].ok

----
C8_Theorem ==
    (spc \in {"loop", "crashed", "written"} /\ y # <<>>) =>
        /\ Len(pb) = Len(p)
        /\ \A j \in 1..Len(p) : pb[j] \in {0, 1} /\ (pb[j] = 1 <=> p[j] > 5)
        /\ (y = <<0, 1>> /\ p = <<5, 5>>) =>
              /\ pb = <<0, 0>>
              /\ precision_score(y, pb).val.n = 0
              /\ recall_score(y, pb).val.n = 0
              /\ f1_score(y, pb).val.n = 0

C8_Witness ==
    /\ y = <<0, 1>>
    /\ p = <<5, 5>>
    /\ pb = <<0, 0>>
    /\ scored

\* The tab-separated fields of a line.
RECURSIVE Fields(_)
Fields(l) ==
    IF l = <<>> THEN << <<>> >>
    ELSE LET rest == Fields(Tail(l))
         IN  IF Head(l) = "\t" THEN << <<>> >> \o rest
             ELSE << <<Head(l)>> \o Head(rest) >> \o Tail(rest)

\* C10: every data row of the score file has 2 + (number of requested
\* metrics) fields, as the header has; each metric cell is a bare number
\* without bootstrap and lower,point,upper with it.
C10_Claim ==
    spc = "written" =>
        \A r \in 1..Len(out_file) :
            LET f == Fields(out_file[r])
            IN  /\ Len(f) = 2 + Len(scores)
                /\ r > 1 => \A c \in 3..Len(f) :
                      f[c] = IF bootstrap THEN <<"num", ",", "num", ",", "num">>
                             ELSE <<"num">>


----
(***************************************************************************)
(* job.py: the imputation retry loop                                       *)
(***************************************************************************)
\* The launches of the worker are bounded in both phases and there is at most
\* one switch.
C11_Bounded ==
    /\ nPrimary <= max_restarts + 1
    /\ nFallback <= max_restarts + 1
    /\ nSwitch <= 1
    /\ (nFallback > 0 => nSwitch = 1 /\ imeth = impute_fallback)
    /\ (jpc \in {"launch", "running"} /\ nSwitch = 0 => imeth = impute_method)

\* The switch is taken with the primary restarts exhausted and an untried
\* fallback, and restarts from set 0 with nrest 0; the model is abandoned with
\* the restarts exhausted and no untried fallback left.
C11_Switch ==
    /\ nSwitch' > nSwitch =>
          /\ nSwitch = 0
          /\ nPrimary = max_restarts + 1
          /\ nrest >= max_restarts
          /\ impute_fallback # ""
          /\ imeth # impute_fallback
          /\ imeth' = impute_fallback
          /\ start' = 0
          /\ jcount' = total_sets
          /\ nrest' = 0
    /\ outcome' = "abandoned" /\ outcome # "abandoned" =>
          /\ nrest >= max_restarts
          /\ (impute_fallback = "" \/ imeth = impute_fallback)
          /\ (nSwitch = 1 => nFallback = max_restarts + 1)

\* C11: the retry loop of run_model launches the worker at most
\* max_restarts+1 times with the primary method, switches to the fallback at
\* most once, only with the primary restarts exhausted and a fallback other
\* than the current method configured, restarting from set 0 with nrest 0,
\* launches it at most max_restarts+1 times with the fallback and then abandons
\* the model; with every worker run terminating, the loop ends in the
\* converged or the abandoned outcome.
C11_Theorem ==
    /\ []C11_Bounded
    /\ [][C11_Switch]_vars
    /\ (jpc \in {"launch", "running"} ~> outcome \in {"converged", "abandoned"})

C11_Witness ==
    /\ max_restarts >= 1
    /\ nPrimary = max_restarts + 1
    /\ nSwitch = 1
    /\ nFallback = max_restarts + 1
    /\ outcome = "abandoned"

----
(***************************************************************************)
(* job.py: the predictors after the init stage                             *)
(***************************************************************************)
C12_Trains ==
    /\ jpc = "predictors" =>
          /\ outcome \in {"converged", "skipped"}
          /\ jn >= total_sets - 1
          /\ (outcome = "skipped" => jn = total_sets - 1)
    /\ (trained => outcome \in {"converged", "skipped"})
    /\ (outcome = "abandoned" => ~trained /\ jpc \in {"run_model", "finished"})

C12_Continues ==
    outcome' = "abandoned" /\ outcome # "abandoned" =>
        /\ mdl_i' = mdl_i + 1
        /\ (mdl_i < nModels => jpc' = "run_model")
        /\ (mdl_i = nModels => jpc' = "finished")

\* C12: run_model is in its predictor loop only with the init stage converged
\* (highest completed index >= total_sets-1) or skipped (that index equal to
\* total_sets-1); an abandoned model has no predictor trained or evaluated, and
\* the job goes on with the next model.
C12_Theorem == []C12_Trains /\ [][C12_Continues]_vars

C12_Witness ==
    /\ outcome = "abandoned"
    /\ ~trained
    /\ mdl_i = 2
    /\ nModels = 2
    /\ jpc = "run_model"

----
(***************************************************************************)
(* job.py: the arguments of the worker                                     *)
(***************************************************************************)
\* C13: every worker is launched with start >= 0, count >= 1 and
\* start + count = total_sets, whatever the highest existing index is when
\* run_model starts and whatever the worker runs before it produced.
C13_Claim ==
    jpc = "running" => start >= 0 /\ jcount >= 1 /\ start + jcount = total_sets


----
(***************************************************************************)
(* utils/aggregated_scores.py: the filters on the lines of the ranking     *)
(***************************************************************************)
\* The line read last reached the extra-tests filter and was dropped there.
DroppedByExtra ==
    /\ spc # "idle"
    /\ lineno > 0
    /\ ~InSeq(line.pred, excluded_predictors)
    /\ InSeq(IndexOf(index_mode, line), IndexNamesOf(index_mode))
    /\ MissingExtra(extra_tests, line)
    /\ ~scored

\* C14: a line is dropped by the extra-tests filter only if some non-empty
\* extra-test name is not a component of its model path; with the default
\* (empty) option no line is dropped by it.
C14_Claim ==
    DroppedByExtra =>
        \E j \in 1..Len(extra_tests) :
            extra_tests[j] # "" /\ ~InSeq(extra_tests[j], line.mdl)

\* C15: in IMP mode a line that got a score line is attributed to an index
\* name that occurs in its model path; a line with no index name in its path
\* gets no score line.
C15_Claim ==
    (index_mode = "IMP" /\ lineno > 0 /\ scored) =>
        \E j \in 1..Len(IndexNamesOf("IMP")) :
            /\ InSeq(IndexNamesOf("IMP")[j], line.mdl)
            /\ score_lines[Len(score_lines)][1] = index_acron(IndexNamesOf("IMP")[j])

----
(***************************************************************************)
(* utils/aggregated_scores.py: the two positions score_bootstrap reads     *)
(***************************************************************************)
\* C16: with 0 <= pvalue < 1 and M >= 2 retained scores, int(pvalue*M) and
\* int((1-pvalue)*M) are in 0..M-1 and the call returns the interval.
C16_Claim ==
    (/\ bpc \in {"done", "error"}
     /\ Len(bootstrapped_scores) >= 2
     /\ 0 <= pvalue /\ pvalue < 100) =>
        /\ LowerIndex(pvalue, Len(bootstrapped_scores)) \in 0..(Len(bootstrapped_scores) - 1)
        /\ UpperIndex(pvalue, Len(bootstrapped_scores)) \in 0..(Len(bootstrapped_scores) - 1)
        /\ bpc = "done"

====
